---- MODULE Spec2Model ----
(***************************************************************************)
(* Route planning and stop sequencing of VAPE-CRM: the route service       *)
(* (app/services/routes.py) and the route handlers of app/main.py.         *)
(*                                                                         *)
(* Fixed point: distances are integers in metres (0.001 km), travel times  *)
(* integers in 0.001 minutes; round(x, 1) is rounding to a multiple of 100 *)
(* and round(x, 2) to a multiple of 10.  Optional[float] is a sequence of  *)
(* length 0 (None) or 1; Optional[str] uses the string None; an absent     *)
(* integer form field is 0 (None and 0 are both falsy in the handlers).    *)
(***************************************************************************)
EXTENDS Integers, Sequences, FiniteSets, TLC

\* routes: the route table with each route's stops; now: the clock;
\* call: one call of a function of services/routes.py, its arguments and
\* its result (NoCall in the handlers' specification); sessions: the update
\* requests in progress when requests interleave, each in its own database
\* session (all idle where a request is handled in one step)
VARIABLES routes, now, call, sessions

vars == <<routes, now, call, sessions>>

\* ------------------------------------------------------------------ bounds
MaxRoutes == 1
MaxTime == 1
\* the longest store list a function of services/routes.py is called with
MaxStops == 3
\* the number of update requests that interleave
MaxSessions == 2

\* ------------------------------------------------------------ enumerations
None == "None"

ADMIN == "ADMIN"
SALESMAN == "SALESMAN"
SUBSALESMAN == "SUBSALESMAN"
CLIENT == "CLIENT"
UserRole == {ADMIN, SALESMAN, SUBSALESMAN, CLIENT}

DRAFT == "DRAFT"
CONFIRMED == "CONFIRMED"
RouteStatus == {DRAFT, CONFIRMED}

\* ----------------------------------------------------- users and stores
\* The user table: user id -> role.  Users are only ever inserted
\* (create_user); no handler changes a role or deletes a user.
User == <<ADMIN, SALESMAN, SUBSALESMAN, CLIENT>>
UserIds == DOMAIN User

\* session.get(User, id): the row, or None for an id that has no row.
GetUser(id) == IF id \in UserIds THEN [id |-> id, role |-> User[id]] ELSE [id |-> 0, role |-> None]

\* The store table.  Coordinates are in 0.01 degree: store 1 is at
\* (45.50, -73.57), store 2 at (45.42, -75.70), store 3 has no coordinates.
Store ==
  <<[id |-> 1, latitude |-> <<4550>>, longitude |-> <<-7357>>, owner_user_id |-> 2, sub_owner_user_id |-> 3],
    [id |-> 2, latitude |-> <<4542>>, longitude |-> <<-7570>>, owner_user_id |-> 2, sub_owner_user_id |-> 3],
    [id |-> 3, latitude |-> <<>>, longitude |-> <<>>, owner_user_id |-> 2, sub_owner_user_id |-> 0]>>
StoreIds == DOMAIN Store

\* The stores the functions of services/routes.py are called with, one by
\* one.  Store 1 is on the meridian (longitude 0.0), stores 2 and 3 are at the
\* same distance east and west of it, store 4 is on the equator (latitude
\* 0.0) south of store 2, store 5 has no coordinates and store 6 has a
\* latitude only.
SeqStore ==
  <<[id |-> 1, latitude |-> <<120>>, longitude |-> <<0>>, owner_user_id |-> 2, sub_owner_user_id |-> 3],
    [id |-> 2, latitude |-> <<120>>, longitude |-> <<110>>, owner_user_id |-> 2, sub_owner_user_id |-> 3],
    [id |-> 3, latitude |-> <<120>>, longitude |-> <<-110>>, owner_user_id |-> 2, sub_owner_user_id |-> 3],
    [id |-> 4, latitude |-> <<0>>, longitude |-> <<110>>, owner_user_id |-> 2, sub_owner_user_id |-> 3],
    [id |-> 5, latitude |-> <<>>, longitude |-> <<>>, owner_user_id |-> 2, sub_owner_user_id |-> 0],
    [id |-> 6, latitude |-> <<240>>, longitude |-> <<>>, owner_user_id |-> 2, sub_owner_user_id |-> 0]>>

\* ---------------------------------------------------------------- helpers
RECURSIVE SumSeq(_)
SumSeq(s) == IF s = <<>> THEN 0 ELSE Head(s) + SumSeq(Tail(s))

\* Python's round(x, n) on a non-negative value, q = 10^(3-n) model units:
\* to the nearest multiple of q, a tie going to the even multiple.
Round(x, q) ==
  LET r == x % q
      lo == x - r
  IN  IF 2 * r < q THEN lo
      ELSE IF 2 * r > q THEN lo + q
      ELSE IF (lo \div q) % 2 = 0 THEN lo ELSE lo + q

\* The ids of a sequence of ints in ascending order without repetition: the
\* rows "id IN (...)" selects, in primary-key order.
RECURSIVE AscendingFrom(_, _)
AscendingFrom(S, acc) ==
  IF S = {} THEN acc
  ELSE LET m == CHOOSE x \in S : \A y \in S : x <= y
       IN  AscendingFrom(S \ {m}, Append(acc, m))

Range(s) == {s[i] : i \in DOMAIN s}

\* ----------------------------------------------------- services/routes.py
AVERAGE_SPEED_KMH == 55

\* The values _haversine_distance_km returns between two different points,
\* rounded to the metre: the points of the grid of latitudes 0, 1.20, 2.40
\* and longitudes -1.10, 0, 1.10 (which holds the stores of SeqStore and
\* every point that "or" puts in a store's place), and stores 1 and 2 of
\* Store.
HaversineMetres ==
  ({<<0, -110>>, <<0, 0>>} :> 122314 @@
   {<<0, -110>>, <<0, 110>>} :> 244629 @@
   {<<0, -110>>, <<120, -110>>} :> 133434 @@
   {<<0, -110>>, <<120, 0>>} :> 181006 @@
   {<<0, -110>>, <<120, 110>>} :> 278638 @@
   {<<0, -110>>, <<240, -110>>} :> 266868 @@
   {<<0, -110>>, <<240, 0>>} :> 293548 @@
   {<<0, -110>>, <<240, 110>>} :> 361976 @@
   {<<0, 0>>, <<0, 110>>} :> 122314 @@
   {<<0, 0>>, <<120, -110>>} :> 181006 @@
   {<<0, 0>>, <<120, 0>>} :> 133434 @@
   {<<0, 0>>, <<120, 110>>} :> 181006 @@
   {<<0, 0>>, <<240, -110>>} :> 293548 @@
   {<<0, 0>>, <<240, 0>>} :> 266868 @@
   {<<0, 0>>, <<240, 110>>} :> 293548 @@
   {<<0, 110>>, <<120, -110>>} :> 278638 @@
   {<<0, 110>>, <<120, 0>>} :> 181006 @@
   {<<0, 110>>, <<120, 110>>} :> 133434 @@
   {<<0, 110>>, <<240, -110>>} :> 361976 @@
   {<<0, 110>>, <<240, 0>>} :> 293548 @@
   {<<0, 110>>, <<240, 110>>} :> 266868 @@
   {<<120, -110>>, <<120, 0>>} :> 122288 @@
   {<<120, -110>>, <<120, 110>>} :> 244575 @@
   {<<120, -110>>, <<240, -110>>} :> 133434 @@
   {<<120, -110>>, <<240, 0>>} :> 180970 @@
   {<<120, -110>>, <<240, 110>>} :> 278544 @@
   {<<120, 0>>, <<120, 110>>} :> 122288 @@
   {<<120, 0>>, <<240, -110>>} :> 180970 @@
   {<<120, 0>>, <<240, 0>>} :> 133434 @@
   {<<120, 0>>, <<240, 110>>} :> 180970 @@
   {<<120, 110>>, <<240, -110>>} :> 278544 @@
   {<<120, 110>>, <<240, 0>>} :> 180970 @@
   {<<120, 110>>, <<240, 110>>} :> 133434 @@
   {<<240, -110>>, <<240, 0>>} :> 122207 @@
   {<<240, -110>>, <<240, 110>>} :> 244414 @@
   {<<240, 0>>, <<240, 110>>} :> 122207 @@
   {<<4550, -7357>>, <<4542, -7570>>} :> 166358)

\* _haversine_distance_km on the coordinates the model uses, in metres
_haversine_distance_km(lat1, lon1, lat2, lon2) ==
  LET a == <<lat1, lon1>>
      b == <<lat2, lon2>>
  IN  IF a = b THEN 0 ELSE HaversineMetres[{a, b}]

_travel_minutes(distance_km) ==
  IF distance_km <= 0 THEN 0 ELSE (distance_km * 60) \div AVERAGE_SPEED_KMH

HasCoords(store) == store.latitude # <<>> /\ store.longitude # <<>>

\* Python's "x or d" on an Optional[float]: d when x is None or 0.0.
OrElse(x, d) == IF x = <<>> \/ x = <<0>> THEN d ELSE x[1]

RECURSIVE SelectSeq2(_, _)
\* [s for s in stores if keep(s)] with keep given as a set of kept values
SelectSeq2(s, keepSet) ==
  IF s = <<>> THEN <<>>
  ELSE IF Head(s) \in keepSet THEN <<Head(s)>> \o SelectSeq2(Tail(s), keepSet)
  ELSE SelectSeq2(Tail(s), keepSet)

RECURSIVE RemoveFirst_All(_, _)
RemoveFirst_All(s, x) ==
  IF s = <<>> THEN <<>>
  ELSE IF Head(s) = x THEN RemoveFirst_All(Tail(s), x)
  ELSE <<Head(s)>> \o RemoveFirst_All(Tail(s), x)

\* list.remove(x): drop the first element equal to x
RECURSIVE RemoveFirst(_, _)
RemoveFirst(s, x) ==
  IF s = <<>> THEN <<>>
  ELSE IF Head(s) = x THEN Tail(s)
  ELSE <<Head(s)>> \o RemoveFirst(Tail(s), x)

MinByKey_Last(remaining, current_lat, current_lon) ==
  LET key(c) == _haversine_distance_km(current_lat, current_lon,
                                       OrElse(c.latitude, current_lat),
                                       OrElse(c.longitude, current_lon))
      i == CHOOSE i \in DOMAIN remaining :
             /\ \A j \in DOMAIN remaining : key(remaining[i]) <= key(remaining[j])
             /\ \A j \in (i + 1)..Len(remaining) : key(remaining[j]) > key(remaining[i])
  IN  remaining[i]

\* min(remaining, key=...): the first element with the smallest key
MinByKey(remaining, current_lat, current_lon) ==
  LET key(c) == _haversine_distance_km(current_lat, current_lon,
                                       OrElse(c.latitude, current_lat),
                                       OrElse(c.longitude, current_lon))
      i == CHOOSE i \in DOMAIN remaining :
             /\ \A j \in DOMAIN remaining : key(remaining[i]) <= key(remaining[j])
             /\ \A j \in 1..(i - 1) : key(remaining[j]) > key(remaining[i])
  IN  remaining[i]

RECURSIVE NearestLoop(_, _, _)
\* the while loop of optimize_store_sequence
NearestLoop(ordered, remaining, current) ==
  IF remaining = <<>> THEN ordered
  ELSE LET current_lat == OrElse(current.latitude, 0)
           current_lon == OrElse(current.longitude, 0)
           next_store == MinByKey(remaining, current_lat, current_lon)
       IN  NearestLoop(Append(ordered, next_store), RemoveFirst(remaining, next_store), next_store)

optimize_store_sequence_UnorderedFirst(stores) ==
  LET remaining == SelectSeq(stores, HasCoords)
      unordered == SelectSeq2(stores, Range(stores) \ Range(remaining))
  IN  IF remaining = <<>> THEN stores
      ELSE unordered \o NearestLoop(<<Head(remaining)>>, Tail(remaining), Head(remaining))

optimize_store_sequence_FromLast(stores) ==
  LET remaining == SelectSeq(stores, HasCoords)
      unordered == SelectSeq2(stores, Range(stores) \ Range(remaining))
      last == remaining[Len(remaining)]
  IN  IF remaining = <<>> THEN stores
      ELSE NearestLoop(<<last>>, SubSeq(remaining, 1, Len(remaining) - 1), last) \o unordered

\* optimize_store_sequence(stores): the stores with both coordinates in
\* nearest-neighbour order from the first of them, then the others
optimize_store_sequence(stores) ==
  LET remaining == SelectSeq(stores, HasCoords)
      unordered == SelectSeq2(stores, Range(stores) \ Range(remaining))
  IN  IF remaining = <<>> THEN stores
      ELSE NearestLoop(<<Head(remaining)>>, Tail(remaining), Head(remaining)) \o unordered

\* The leg from prev to current: <<distance, minutes>> at full precision
Leg(prev, current) ==
  IF HasCoords(prev) /\ HasCoords(current)
  THEN LET d == _haversine_distance_km(prev.latitude[1], prev.longitude[1],
                                       current.latitude[1], current.longitude[1])
       IN  <<d, _travel_minutes(d)>>
  ELSE <<0, 0>>

calculate_route_metrics_Bridging(stores) ==
  LET located == SelectSeq(stores, HasCoords)
      legs == [i \in 1..(Len(located) - 1) |-> Leg(located[i], located[i + 1])]
  IN  [total_distance_km |-> SumSeq([i \in DOMAIN legs |-> legs[i][1]]),
       total_travel_minutes |-> SumSeq([i \in DOMAIN legs |-> legs[i][2]])]

\* calculate_route_metrics(stores): the totals over the consecutive pairs,
\* at full precision
calculate_route_metrics(stores) ==
  LET legs == [i \in 1..(Len(stores) - 1) |-> Leg(stores[i], stores[i + 1])]
  IN  [total_distance_km |-> SumSeq([i \in DOMAIN legs |-> legs[i][1]]),
       total_travel_minutes |-> SumSeq([i \in DOMAIN legs |-> legs[i][2]])]

\* dict.get(key): the value, or None
DictGet(d, k) == IF k \in DOMAIN d THEN d[k] ELSE None

RouteStop_FromZero(index, store, previous_store, comment_lookup) ==
  LET leg == IF previous_store # <<>> THEN Leg(previous_store[1], store) ELSE <<0, 0>>
  IN  [sequence |-> index - 1,
       store_id |-> store.id,
       comments |-> DictGet(comment_lookup, store.id),
       travel_distance_km |-> Round(leg[1], 10),
       travel_minutes |-> Round(leg[2], 100)]

RouteStop_CommentBySequence(index, store, previous_store, comment_lookup) ==
  LET leg == IF previous_store # <<>> THEN Leg(previous_store[1], store) ELSE <<0, 0>>
  IN  [sequence |-> index,
       store_id |-> store.id,
       comments |-> DictGet(comment_lookup, index),
       travel_distance_km |-> Round(leg[1], 10),
       travel_minutes |-> Round(leg[2], 100)]

\* The RouteStop that the loop of rebuild_route_stops appends at position
\* index (enumerate(ordered, start=1)); previous_store is <<>> at the first.
RouteStop(index, store, previous_store, comment_lookup) ==
  LET leg == IF previous_store # <<>> THEN Leg(previous_store[1], store) ELSE <<0, 0>>
  IN  [sequence |-> index,
       store_id |-> store.id,
       comments |-> DictGet(comment_lookup, store.id),
       travel_distance_km |-> Round(leg[1], 10),
       travel_minutes |-> Round(leg[2], 100)]

rebuild_route_stops_LegFromFirst(route, stores, existing_comments) ==
  LET ordered == optimize_store_sequence(stores)
      metrics == calculate_route_metrics(ordered)
  IN  [route EXCEPT !.total_distance_km = Round(metrics.total_distance_km, 100),
                    !.total_travel_minutes = Round(metrics.total_travel_minutes, 100),
                    !.stops = [i \in DOMAIN ordered |->
                                 RouteStop(i, ordered[i],
                                           IF i = 1 THEN <<>> ELSE <<ordered[1]>>,
                                           existing_comments)]]

rebuild_route_stops_Appends(route, stores, existing_comments) ==
  LET ordered == optimize_store_sequence(stores)
      metrics == calculate_route_metrics(ordered)
  IN  [route EXCEPT !.total_distance_km = Round(metrics.total_distance_km, 100),
                    !.total_travel_minutes = Round(metrics.total_travel_minutes, 100),
                    !.stops = route.stops \o
                              [i \in DOMAIN ordered |->
                                 RouteStop(i, ordered[i],
                                           IF i = 1 THEN <<>> ELSE <<ordered[i - 1]>>,
                                           existing_comments)]]

\* rebuild_route_stops(route, stores, existing_comments): the route with new
\* totals and a new stop list (existing_comments is the empty dict for None)
rebuild_route_stops(route, stores, existing_comments) ==
  LET ordered == optimize_store_sequence(stores)
      metrics == calculate_route_metrics(ordered)
  IN  [route EXCEPT !.total_distance_km = Round(metrics.total_distance_km, 100),
                    !.total_travel_minutes = Round(metrics.total_travel_minutes, 100),
                    !.stops = [i \in DOMAIN ordered |->
                                 RouteStop(i, ordered[i],
                                           IF i = 1 THEN <<>> ELSE <<ordered[i - 1]>>,
                                           existing_comments)]]

user_can_edit_route_NoStatus(user, route) ==
  IF user.role = ADMIN THEN TRUE
  ELSE IF user.id \in {route.created_by_user_id, route.assigned_user_id} THEN TRUE
  ELSE FALSE

user_can_edit_route_CreatorOnly(user, route) ==
  IF user.role = ADMIN THEN TRUE
  ELSE IF route.status = CONFIRMED THEN FALSE
  ELSE IF user.id \in {route.created_by_user_id} THEN TRUE
  ELSE FALSE

user_can_edit_route(user, route) ==
  IF user.role = ADMIN THEN TRUE
  ELSE IF route.status = CONFIRMED THEN FALSE
  ELSE IF user.id \in {route.created_by_user_id, route.assigned_user_id} THEN TRUE
  ELSE FALSE

user_can_view_route_CreatorOnly(user, route) ==
  IF user.role = ADMIN THEN TRUE
  ELSE IF user.id \in {route.created_by_user_id} THEN TRUE
  ELSE FALSE

user_can_view_route(user, route) ==
  IF user.role = ADMIN THEN TRUE
  ELSE IF user.id \in {route.created_by_user_id, route.assigned_user_id} THEN TRUE
  ELSE FALSE

list_accessible_routes_AssignedOnly(current_user) ==
  LET all == [i \in 1..Len(routes) |-> Len(routes) + 1 - i]
      mine(rid) == routes[rid].assigned_user_id = current_user.id
  IN  IF current_user.role # ADMIN THEN SelectSeq(all, mine) ELSE all

\* list_accessible_routes(session, current_user): the route ids, newest first
\* (ids are assigned in insertion order, as created_at is)
list_accessible_routes(current_user) ==
  LET all == [i \in 1..Len(routes) |-> Len(routes) + 1 - i]
      mine(rid) == \/ routes[rid].created_by_user_id = current_user.id
                   \/ routes[rid].assigned_user_id = current_user.id
  IN  IF current_user.role # ADMIN THEN SelectSeq(all, mine) ELSE all

\* ------------------------------------------------------------- main.py
\* _store_access_query: the ids of the stores the user's query returns
_store_access_query(current_user) ==
  IF current_user.role = SALESMAN
  THEN {i \in StoreIds : Store[i].owner_user_id = current_user.id}
  ELSE IF current_user.role = SUBSALESMAN
  THEN {i \in StoreIds : Store[i].sub_owner_user_id = current_user.id}
  ELSE IF current_user.role = CLIENT
  THEN {i \in StoreIds : Store[i].owner_user_id = current_user.id}
  ELSE StoreIds

\* Dates strptime(value, "%Y-%m-%d") accepts, among the form values used
ValidDates == {"2024-05-01"}

\* _parse_date: [ok, date]; ok = FALSE is the HTTPException(400)
_parse_date(value) ==
  IF value = None \/ value = "" THEN [ok |-> TRUE, date |-> None]
  ELSE IF value \in ValidDates THEN [ok |-> TRUE, date |-> value]
  ELSE [ok |-> FALSE, date |-> None]

SelectStores_RowPerId(store_ids) ==
  LET Known(id) == id \in StoreIds
      ids == SelectSeq(store_ids, Known)
  IN  [i \in DOMAIN ids |-> Store[ids[i]]]

\* select(Store).where(Store.id.in_(store_ids)): the matching rows, in
\* primary-key order
SelectStores(store_ids) ==
  LET ids == AscendingFrom(Range(store_ids) \cap StoreIds, <<>>)
  IN  [i \in DOMAIN ids |-> Store[ids[i]]]

\* {int(store_id): comment for store_id, comment in zip(ids, comments)}:
\* a later pair overrides an earlier one with the same key
CommentLookup(comment_store_ids, comments) ==
  LET n == IF Len(comment_store_ids) < Len(comments) THEN Len(comment_store_ids) ELSE Len(comments)
      keys == {comment_store_ids[i] : i \in 1..n}
      lastAt(k) == CHOOSE i \in 1..n : comment_store_ids[i] = k /\ \A j \in (i + 1)..n : comment_store_ids[j] # k
  IN  [k \in keys |-> comments[lastAt(k)]]

AssignableRoles_WithAdmin == {SALESMAN, SUBSALESMAN, ADMIN}
\* the roles a route's assignee may hold
AssignableRoles == {SALESMAN, SUBSALESMAN}

SubAssignsOther_Never(current_user, assigned_user_id) == FALSE
\* "Sub-Salesmen can only assign routes to themselves": the 403 condition
SubAssignsOther(current_user, assigned_user_id) ==
  current_user.role = SUBSALESMAN /\ assigned_user_id # current_user.id

ApplyConfirm_ElseDraft(route, action) ==
  IF action = "confirm" THEN [route EXCEPT !.status = CONFIRMED] ELSE [route EXCEPT !.status = DRAFT]
\* if action == "confirm": route.status = RouteStatus.CONFIRMED
ApplyConfirm(route, action) ==
  IF action = "confirm" THEN [route EXCEPT !.status = CONFIRMED] ELSE route

\* The response of a handler and the route table after it: a raised
\* HTTPException leaves the table as it was (get_session closes the session
\* without a commit).
Raise(code) == [code |-> code, routes |-> routes]

Rollback_Flushed(code, session_routes) == [code |-> code, routes |-> session_routes]
\* An HTTPException raised after the handler has assigned to the session's
\* route: get_session closes the session, no commit was made, and the
\* assignments in session_routes are lost.
Rollback(code, session_routes) == [code |-> code, routes |-> routes]

create_route_AllowsEmpty(uid, f) ==
  LET current_user == GetUser(uid)
      assigned_user == GetUser(f.assigned_user_id)
      accessible_store_ids == _store_access_query(current_user)
      selected_stores == SelectStores(f.store_ids)
      date == _parse_date(f.planned_date)
      route == [name |-> f.name,
                status |-> DRAFT,
                planned_date |-> date.date,
                created_by_user_id |-> current_user.id,
                assigned_user_id |-> f.assigned_user_id,
                notes |-> f.notes,
                total_distance_km |-> 0,
                total_travel_minutes |-> 0,
                updated_at |-> now,
                stops |-> <<>>]
  IN  IF current_user.role \notin {ADMIN, SALESMAN, SUBSALESMAN} THEN Raise(403)
      ELSE IF assigned_user.role \notin AssignableRoles THEN Raise(400)
      ELSE IF SubAssignsOther(current_user, f.assigned_user_id) THEN Raise(403)
      ELSE IF \E i \in DOMAIN f.store_ids : f.store_ids[i] \notin accessible_store_ids THEN Raise(403)
      ELSE IF Len(selected_stores) # Len(f.store_ids) THEN Raise(400)
      ELSE IF ~date.ok THEN Raise(400)
      ELSE [code |-> 302,
            routes |-> Append(routes, rebuild_route_stops(route, selected_stores, <<>>))]

\* POST /routes
create_route(uid, f) ==
  LET current_user == GetUser(uid)
      assigned_user == GetUser(f.assigned_user_id)
      accessible_store_ids == _store_access_query(current_user)
      selected_stores == SelectStores(f.store_ids)
      date == _parse_date(f.planned_date)
      route == [name |-> f.name,
                status |-> DRAFT,
                planned_date |-> date.date,
                created_by_user_id |-> current_user.id,
                assigned_user_id |-> f.assigned_user_id,
                notes |-> f.notes,
                total_distance_km |-> 0,
                total_travel_minutes |-> 0,
                updated_at |-> now,
                stops |-> <<>>]
  IN  IF current_user.role \notin {ADMIN, SALESMAN, SUBSALESMAN} THEN Raise(403)
      ELSE IF f.store_ids = <<>> THEN Raise(400)
      ELSE IF assigned_user.role \notin AssignableRoles THEN Raise(400)
      ELSE IF SubAssignsOther(current_user, f.assigned_user_id) THEN Raise(403)
      ELSE IF \E i \in DOMAIN f.store_ids : f.store_ids[i] \notin accessible_store_ids THEN Raise(403)
      ELSE IF Len(selected_stores) # Len(f.store_ids) THEN Raise(400)
      ELSE IF ~date.ok THEN Raise(400)
      ELSE [code |-> 302,
            routes |-> Append(routes, rebuild_route_stops(route, selected_stores, <<>>))]

\* GET /routes/{route_id}
route_detail(uid, route_id) ==
  IF route_id \notin DOMAIN routes THEN Raise(404)
  ELSE IF ~user_can_view_route(GetUser(uid), routes[route_id]) THEN Raise(403)
  ELSE Raise(200)

\* GET /routes
routes_page(uid) ==
  IF GetUser(uid).role \notin {ADMIN, SALESMAN, SUBSALESMAN} THEN Raise(403)
  ELSE Raise(200)

EditActions == {"save", "reoptimize", "confirm"}

CommentOnly_ClearsOthers(route, comment_lookup) ==
  [route EXCEPT !.stops =
     [i \in DOMAIN route.stops |->
        [route.stops[i] EXCEPT !.comments = DictGet(comment_lookup, route.stops[i].store_id)]]]

\* "for stop in route.stops: if stop.store_id in comment_lookup:
\* stop.comments = comment_lookup[stop.store_id]"
CommentOnly(route, comment_lookup) ==
  [route EXCEPT !.stops =
     [i \in DOMAIN route.stops |->
        IF route.stops[i].store_id \in DOMAIN comment_lookup
        THEN [route.stops[i] EXCEPT !.comments = comment_lookup[route.stops[i].store_id]]
        ELSE route.stops[i]]]

UpdateBody_ConfirmKeepsText(current_user, route0, f) ==
  LET r1 == IF f.action = "confirm"
            THEN [route0 EXCEPT !.updated_at = now]
            ELSE [route0 EXCEPT !.name = f.name, !.notes = f.notes, !.updated_at = now]
      date == IF f.planned_date # None THEN _parse_date(f.planned_date) ELSE [ok |-> TRUE, date |-> r1.planned_date]
      r2 == [r1 EXCEPT !.planned_date = date.date]
      assigned_user == GetUser(f.assigned_user_id)
      r3 == IF /\ f.assigned_user_id # 0
               /\ \/ current_user.role \in {ADMIN, SALESMAN}
                  \/ current_user.id = r2.created_by_user_id
            THEN [r2 EXCEPT !.assigned_user_id = f.assigned_user_id]
            ELSE r2
      accessible_store_ids == _store_access_query(current_user)
      selected_stores == SelectStores(f.store_ids)
      comment_lookup == CommentLookup(f.comment_store_ids, f.comments)
      r4 == IF f.store_ids # <<>>
            THEN rebuild_route_stops(r3, selected_stores, comment_lookup)
            ELSE IF f.comments # <<>> /\ f.comment_store_ids # <<>>
            THEN CommentOnly(r3, comment_lookup)
            ELSE r3
      r5 == ApplyConfirm(r4, f.action)
  IN  IF ~date.ok THEN [code |-> 400, route |-> r1]
      ELSE IF f.assigned_user_id # 0 /\ assigned_user.role \notin AssignableRoles
      THEN [code |-> 400, route |-> r2]
      ELSE IF f.assigned_user_id # 0 /\ SubAssignsOther(current_user, f.assigned_user_id)
      THEN [code |-> 403, route |-> r2]
      ELSE IF f.store_ids # <<>> /\ \E i \in DOMAIN f.store_ids : f.store_ids[i] \notin accessible_store_ids
      THEN [code |-> 403, route |-> r3]
      ELSE IF f.store_ids # <<>> /\ Len(selected_stores) # Len(f.store_ids)
      THEN [code |-> 400, route |-> r3]
      ELSE IF f.store_ids = <<>> /\ r4.stops = <<>>
      THEN [code |-> 400, route |-> r4]
      ELSE [code |-> 302, route |-> r5]

\* The body of update_route under "if action in {save, reoptimize, confirm}",
\* on the session's copy of the route: [code, route], the route being the
\* session's copy when the body raises or ends
UpdateBody(current_user, route0, f) ==
  LET r1 == [route0 EXCEPT !.name = f.name, !.notes = f.notes, !.updated_at = now]
      date == IF f.planned_date # None THEN _parse_date(f.planned_date) ELSE [ok |-> TRUE, date |-> r1.planned_date]
      r2 == [r1 EXCEPT !.planned_date = date.date]
      assigned_user == GetUser(f.assigned_user_id)
      r3 == IF /\ f.assigned_user_id # 0
               /\ \/ current_user.role \in {ADMIN, SALESMAN}
                  \/ current_user.id = r2.created_by_user_id
            THEN [r2 EXCEPT !.assigned_user_id = f.assigned_user_id]
            ELSE r2
      accessible_store_ids == _store_access_query(current_user)
      selected_stores == SelectStores(f.store_ids)
      comment_lookup == CommentLookup(f.comment_store_ids, f.comments)
      r4 == IF f.store_ids # <<>>
            THEN rebuild_route_stops(r3, selected_stores, comment_lookup)
            ELSE IF f.comments # <<>> /\ f.comment_store_ids # <<>>
            THEN CommentOnly(r3, comment_lookup)
            ELSE r3
      r5 == ApplyConfirm(r4, f.action)
  IN  IF ~date.ok THEN [code |-> 400, route |-> r1]
      ELSE IF f.assigned_user_id # 0 /\ assigned_user.role \notin AssignableRoles
      THEN [code |-> 400, route |-> r2]
      ELSE IF f.assigned_user_id # 0 /\ SubAssignsOther(current_user, f.assigned_user_id)
      THEN [code |-> 403, route |-> r2]
      ELSE IF f.store_ids # <<>> /\ \E i \in DOMAIN f.store_ids : f.store_ids[i] \notin accessible_store_ids
      THEN [code |-> 403, route |-> r3]
      ELSE IF f.store_ids # <<>> /\ Len(selected_stores) # Len(f.store_ids)
      THEN [code |-> 400, route |-> r3]
      ELSE IF f.store_ids = <<>> /\ r4.stops = <<>>
      THEN [code |-> 400, route |-> r4]
      ELSE [code |-> 302, route |-> r5]

Authorize_ConfirmByEditor(uid, route_id, action) ==
  LET current_user == GetUser(uid)
      route == routes[route_id]
  IN  IF route_id \notin DOMAIN routes THEN 404
      ELSE IF action = "confirm" /\ route.status = CONFIRMED THEN 302
      ELSE IF ~user_can_edit_route(current_user, route) THEN 403
      ELSE 0

Authorize_NoEarlyReturn(uid, route_id, action) ==
  LET current_user == GetUser(uid)
      route == routes[route_id]
  IN  IF route_id \notin DOMAIN routes THEN 404
      ELSE IF /\ action = "confirm"
              /\ current_user.role \notin {ADMIN}
              /\ current_user.id # route.assigned_user_id
      THEN 403
      ELSE IF action # "confirm" /\ ~user_can_edit_route(current_user, route) THEN 403
      ELSE 0

Authorize_ConfirmByAnyone(uid, route_id, action) ==
  LET current_user == GetUser(uid)
      route == routes[route_id]
  IN  IF route_id \notin DOMAIN routes THEN 404
      ELSE IF action = "confirm" /\ route.status = CONFIRMED THEN 302
      ELSE IF action # "confirm" /\ ~user_can_edit_route(current_user, route) THEN 403
      ELSE 0

\* The checks of update_route that come before the form's fields are used:
\* 404, 302 (confirm of a CONFIRMED route: redirect, nothing done), 403, or
\* 0 when the request goes on
Authorize(uid, route_id, action) ==
  LET current_user == GetUser(uid)
      route == routes[route_id]
  IN  IF route_id \notin DOMAIN routes THEN 404
      ELSE IF action = "confirm" /\ route.status = CONFIRMED THEN 302
      ELSE IF /\ action = "confirm"
              /\ current_user.role \notin {ADMIN}
              /\ current_user.id # route.assigned_user_id
      THEN 403
      ELSE IF action # "confirm" /\ ~user_can_edit_route(current_user, route) THEN 403
      ELSE 0

\* POST /routes/{route_id}/update
update_route(uid, route_id, f) ==
  LET pre == Authorize(uid, route_id, f.action)
      body == UpdateBody(GetUser(uid), routes[route_id], f)
  IN  IF pre # 0 THEN Raise(pre)
      ELSE IF f.action \notin EditActions THEN Raise(302)
      ELSE IF body.code # 302
      THEN Rollback(body.code, [routes EXCEPT ![route_id] = body.route])
      ELSE [code |-> 302, routes |-> [routes EXCEPT ![route_id] = body.route]]

\* ------------------------------------------------------- request inputs
Names == {"a", "b"}
NotesIn == {None, "n"}
DateIn == {None, "", "2024-05-01", "05/01/2024"}
\* 0: the field is absent; 9: no such user
AssigneeIn == {0, 1, 2, 3, 4, 9}
CommentTexts == {"c"}
Actions == EditActions \cup {"archive"}

\* store_ids: the handlers use the list only through its length and its
\* members, so the lists are drawn in increasing order, with one list that
\* repeats a store; 9 is no store.
StoreIdLists ==
  {<<>>, <<1>>, <<2>>, <<3>>, <<1, 2>>, <<1, 3>>, <<2, 3>>, <<1, 2, 3>>,
   <<1, 1>>, <<9>>, <<1, 9>>}

\* comment_store_ids and comments, as the form pairs them; the last pair
\* has a store id and no text, so that zip() drops it
CommentFields ==
  {<<<<>>, <<>>>>, <<<<1>>, <<>>>>} \cup {<<<<i>>, <<c>>>> : i \in StoreIds, c \in CommentTexts}

BaseForm ==
  [name |-> "a", notes |-> None, planned_date |-> None, assigned_user_id |-> 0,
   store_ids |-> <<>>, comment_store_ids |-> <<>>, comments |-> <<>>, action |-> "save"]

\* The update forms: a form changes the descriptive fields, or names an
\* assignee, or carries store ids and comments.
UpdateFormsFor(a) ==
  {[BaseForm EXCEPT !.name = n, !.notes = t, !.planned_date = d, !.action = a] :
     n \in Names, t \in NotesIn, d \in DateIn}
  \cup
  {[BaseForm EXCEPT !.assigned_user_id = u, !.action = a] : u \in AssigneeIn}
  \cup
  {[BaseForm EXCEPT !.store_ids = s, !.comment_store_ids = cf[1], !.comments = cf[2], !.action = a] :
     s \in StoreIdLists, cf \in CommentFields}
UpdateFormsBy == [a \in Actions |-> UpdateFormsFor(a)]
UpdateForms == UNION {UpdateFormsBy[a] : a \in Actions}

\* The create forms (action and the comment fields are not part of the form)
CreateForms ==
  {[BaseForm EXCEPT !.name = n, !.notes = t, !.planned_date = d, !.assigned_user_id = 2, !.store_ids = <<1, 2>>] :
     n \in Names, t \in NotesIn, d \in DateIn}
  \cup
  {[BaseForm EXCEPT !.assigned_user_id = u, !.store_ids = s] :
     u \in AssigneeIn, s \in StoreIdLists}

RouteIdIn == 1..(MaxRoutes + 1)

\* --------------------------------------------------------- state machine
NoCall == [op |-> "none"]

Sess == 1..MaxSessions
\* a session before its request: no user, no form, nothing read
Idle ==
  [pc |-> "idle", uid |-> 0, form |-> BaseForm, route |-> <<>>, stale |-> FALSE,
   code |-> 0, landed |-> [on |-> None, changed |-> FALSE]]
NoSessions == [s \in Sess |-> Idle]

Init ==
  /\ routes = <<>>
  /\ now = 0
  /\ call = NoCall
  /\ sessions = NoSessions

\* datetime.utcnow() advances between requests
Tick ==
  /\ now < MaxTime
  /\ now' = now + 1
  /\ UNCHANGED <<routes, call, sessions>>

CreateRoute ==
  /\ Len(routes) < MaxRoutes
  /\ \E uid \in UserIds, f \in CreateForms :
       /\ routes' = create_route(uid, f).routes
       /\ UNCHANGED <<now, call, sessions>>

\* A request that Authorize answers is answered whatever the other fields
\* of its form are: one form stands for all of them.
UpdateRoute ==
  \E uid \in UserIds, route_id \in RouteIdIn, a \in Actions :
    \E f \in IF Authorize(uid, route_id, a) # 0
             THEN {[BaseForm EXCEPT !.action = a]}
             ELSE UpdateFormsBy[a] :
      /\ routes' = update_route(uid, route_id, f).routes
      /\ UNCHANGED <<now, call, sessions>>

\* the two GET handlers read and respond; they store nothing
RouteDetail ==
  \E uid \in UserIds, route_id \in RouteIdIn :
    /\ route_detail(uid, route_id).code \in {200, 403, 404}
    /\ UNCHANGED <<routes, now, call, sessions>>

RoutesPage ==
  \E uid \in UserIds :
    /\ routes_page(uid).code \in {200, 403}
    /\ UNCHANGED <<routes, now, call, sessions>>

Next == Tick \/ CreateRoute \/ UpdateRoute \/ RouteDetail \/ RoutesPage

Spec == Init /\ [][Next]_vars

\* ------------------------------- the functions of services/routes.py
\* The store lists a function is called with: every list of at most MaxStops
\* stores of SeqStore, a store any number of times
StoreLists == UNION {[1..n -> Range(SeqStore)] : n \in 0..MaxStops}

\* The comment dicts rebuild_route_stops is called with: at most two
\* entries, for stores of SeqStore and for 9, which is no store
CommentKeys == {1, 2, 5, 9}
CommentValues == {"x", "y"}
CommentMaps ==
  UNION {[K -> CommentValues] : K \in {K \in SUBSET CommentKeys : Cardinality(K) <= 2}}

\* The routes rebuild_route_stops is called with: a route as create_route
\* constructs it, and a route that has stops with comments
FreshRoute ==
  [name |-> "a", status |-> DRAFT, planned_date |-> None, created_by_user_id |-> 2,
   assigned_user_id |-> 2, notes |-> None, total_distance_km |-> 0,
   total_travel_minutes |-> 0, updated_at |-> 0, stops |-> <<>>]
UsedRoute ==
  rebuild_route_stops(FreshRoute, <<SeqStore[3], SeqStore[1], SeqStore[5]>>,
                      [k \in {1, 3, 5} |-> "old"])
SeqRoutes == {FreshRoute, UsedRoute}

\* the arguments of the call are chosen
InitSeq ==
  /\ routes = <<>>
  /\ now = 0
  /\ call \in {[op |-> "args", stores |-> stores, comments |-> comments, route |-> route] :
                  stores \in StoreLists, comments \in CommentMaps, route \in SeqRoutes}
  /\ sessions = NoSessions

OptimizeStoreSequence ==
  /\ call.op = "args"
  /\ call' = [op |-> "optimize_store_sequence", stores |-> call.stores,
              comments |-> call.comments, route |-> call.route,
              result |-> optimize_store_sequence(call.stores)]
  /\ UNCHANGED <<routes, now, sessions>>

CalculateRouteMetrics ==
  /\ call.op = "args"
  /\ call' = [op |-> "calculate_route_metrics", stores |-> call.stores,
              comments |-> call.comments, route |-> call.route,
              result |-> calculate_route_metrics(call.stores)]
  /\ UNCHANGED <<routes, now, sessions>>

\* rebuild_route_stops changes the route it is given: result is that route
\* after the call
RebuildRouteStops ==
  /\ call.op = "args"
  /\ call' = [op |-> "rebuild_route_stops", stores |-> call.stores,
              comments |-> call.comments, route |-> call.route,
              result |-> rebuild_route_stops(call.route, call.stores, call.comments)]
  /\ UNCHANGED <<routes, now, sessions>>

NextSeq == OptimizeStoreSequence \/ CalculateRouteMetrics \/ RebuildRouteStops

SpecSeq == InitSeq /\ [][NextSeq]_vars

\* ------------------------------------ update requests that interleave
\* update_route takes no lock and checks no version: a request served by
\* another worker process runs between this request's reads and its commit.
\* The steps of a request are its statements that reach the database:
\* session.get(Route, route_id), the lazy load of route.stops, and
\* session.commit().

\* The route the requests are made on, as create_route stores it for
\* salesman 2 with sub-salesman 3 as the assignee and stores 1 and 2
ConcRoute ==
  rebuild_route_stops(
    [name |-> "a", status |-> DRAFT, planned_date |-> None, created_by_user_id |-> 2,
     assigned_user_id |-> 3, notes |-> None, total_distance_km |-> 0,
     total_travel_minutes |-> 0, updated_at |-> 0, stops |-> <<>>],
    SelectStores(<<1, 2>>), <<>>)
ConcRouteId == 1

\* The forms of the interleaved requests: a rename, two rebuilds (one with
\* a comment), a comment for a stop, a confirm
ConcForms ==
  {[BaseForm EXCEPT !.name = "b"],
   [BaseForm EXCEPT !.store_ids = <<1>>, !.comment_store_ids = <<1>>, !.comments = <<"c">>],
   [BaseForm EXCEPT !.store_ids = <<1, 2>>, !.action = "reoptimize"],
   [BaseForm EXCEPT !.comment_store_ids = <<2>>, !.comments = <<"c">>],
   [BaseForm EXCEPT !.action = "confirm"]}

InitConc ==
  /\ routes = <<ConcRoute>>
  /\ now = 0
  /\ call = NoCall
  /\ sessions = NoSessions

\* session.get(Route, route_id) and the checks on the row read: the request
\* ends here when they answer
GetRoute(s) ==
  /\ sessions[s].pc = "idle"
  /\ \E uid \in UserIds, f \in ConcForms :
       LET pre == Authorize(uid, ConcRouteId, f.action)
           code == IF pre # 0 THEN pre ELSE IF f.action \notin EditActions THEN 302 ELSE 0
       IN  sessions' = [sessions EXCEPT ![s] =
             [Idle EXCEPT !.pc = IF code # 0 THEN "done" ELSE "got",
                          !.uid = uid, !.form = f, !.code = code,
                          !.route = routes[ConcRouteId]]]
  /\ UNCHANGED <<routes, now, call>>

\* the first use of route.stops selects the stops the route has now
LoadStops(s) ==
  /\ sessions[s].pc = "got"
  /\ sessions' = [sessions EXCEPT ![s].pc = "loaded",
                                  ![s].route.stops = routes[ConcRouteId].stops]
  /\ UNCHANGED <<routes, now, call>>

\* What the flush of a session writes over the stored route db: the columns
\* whose value new differs from the value snap the session read; for a
\* rebuild, a DELETE of the stop rows the session read and an INSERT of the
\* new ones (the DELETE matches no row when another rebuild has replaced
\* them: stale); otherwise an UPDATE of the comments that changed.
Flush(db, snap, new, rebuilds, stale) ==
  [name |-> IF new.name # snap.name THEN new.name ELSE db.name,
   status |-> IF new.status # snap.status THEN new.status ELSE db.status,
   planned_date |-> IF new.planned_date # snap.planned_date THEN new.planned_date ELSE db.planned_date,
   created_by_user_id |-> db.created_by_user_id,
   assigned_user_id |-> IF new.assigned_user_id # snap.assigned_user_id
                        THEN new.assigned_user_id ELSE db.assigned_user_id,
   notes |-> IF new.notes # snap.notes THEN new.notes ELSE db.notes,
   total_distance_km |-> IF new.total_distance_km # snap.total_distance_km
                         THEN new.total_distance_km ELSE db.total_distance_km,
   total_travel_minutes |-> IF new.total_travel_minutes # snap.total_travel_minutes
                            THEN new.total_travel_minutes ELSE db.total_travel_minutes,
   updated_at |-> IF new.updated_at # snap.updated_at THEN new.updated_at ELSE db.updated_at,
   stops |-> IF rebuilds
             THEN IF stale THEN db.stops \o new.stops ELSE new.stops
             ELSE [i \in DOMAIN db.stops |->
                     IF i \in DOMAIN new.stops /\ new.stops[i].comments # snap.stops[i].comments
                     THEN [db.stops[i] EXCEPT !.comments = new.stops[i].comments]
                     ELSE db.stops[i]]]

\* The columns of C28: name, notes, planned date, assignee and stop list
Edited(before, after) ==
  \/ after.name # before.name
  \/ after.notes # before.notes
  \/ after.planned_date # before.planned_date
  \/ after.assigned_user_id # before.assigned_user_id
  \/ after.stops # before.stops

\* The answer of a request whose body answers body: an UPDATE of a stop row
\* that another rebuild has deleted raises StaleDataError (500)
CommitCode(ss, body) ==
  IF /\ body.code = 302
     /\ ss.form.store_ids = <<>>
     /\ ss.stale
     /\ body.route.stops # ss.route.stops
  THEN 500
  ELSE body.code

\* the stored route after the commit, or after the rollback
CommitStored(db, ss, body, code) ==
  IF code = 302
  THEN Flush(db, ss.route, body.route, ss.form.store_ids # <<>>, ss.stale)
  ELSE db

\* session.commit() of session s: the route is stored; a rebuild that is
\* committed makes stale the stops the other sessions have loaded.  landed
\* records the status the stored route had when the commit was made and
\* whether the commit edited the route.
CommitWrite(s, code, stored) ==
  /\ routes' = [routes EXCEPT ![ConcRouteId] = stored]
  /\ sessions' =
       [t \in Sess |->
          IF t = s
          THEN [sessions[s] EXCEPT !.pc = "done", !.code = code,
                                   !.landed = [on |-> routes[ConcRouteId].status,
                                               changed |-> Edited(routes[ConcRouteId], stored)]]
          ELSE IF code = 302 /\ sessions[s].form.store_ids # <<>> /\ sessions[t].pc = "loaded"
          THEN [sessions[t] EXCEPT !.stale = TRUE]
          ELSE sessions[t]]

CommitAnswer(s, body, code) ==
  CommitWrite(s, code, CommitStored(routes[ConcRouteId], sessions[s], body, code))

CommitBody(s, body) == CommitAnswer(s, body, CommitCode(sessions[s], body))

\* The body of update_route on what the session read, and session.commit()
Commit(s) ==
  /\ sessions[s].pc = "loaded"
  /\ CommitBody(s, UpdateBody(GetUser(sessions[s].uid), sessions[s].route, sessions[s].form))
  /\ UNCHANGED <<now, call>>

NextConc == \E s \in Sess : GetRoute(s) \/ LoadStops(s) \/ Commit(s)

SpecConc == InitConc /\ [][NextConc]_vars

\* ------------------------------------------------------------- claims
IsAdmin(uid) == User[uid] = ADMIN
ErrorCodes == {400, 403, 404}

\* C1: an update request with action save or reoptimize made by a user who
\* is not an administrator on a CONFIRMED route is denied (403) and leaves
\* the stored route, stop list and totals included, as it was.
C1_NonAdminNeverChangesConfirmed ==
  \A route_id \in DOMAIN routes, uid \in UserIds, f \in UpdateForms :
    (/\ routes[route_id].status = CONFIRMED
     /\ ~IsAdmin(uid)
     /\ f.action \in {"save", "reoptimize"})
    => LET res == update_route(uid, route_id, f)
       IN  res.code = 403 /\ res.routes = routes

\* a CONFIRMED route whose creator and assignee are two users who are not
\* administrators, both of them denied a rebuild of its stops
C1_Witness ==
  \E route_id \in DOMAIN routes :
    LET r == routes[route_id]
        f == [BaseForm EXCEPT !.name = "b", !.store_ids = <<1>>, !.action = "reoptimize"]
    IN  /\ r.status = CONFIRMED
        /\ r.created_by_user_id # r.assigned_user_id
        /\ ~IsAdmin(r.created_by_user_id)
        /\ Len(r.stops) > 1
        /\ update_route(r.created_by_user_id, route_id, f).code = 403
        /\ update_route(r.assigned_user_id, route_id, f).code = 403

\* C2: the sequence numbers of each route's stops are exactly 1..N, with no
\* duplicate and no gap, N being the number of its stops.
C2_SequenceDense ==
  \A route_id \in DOMAIN routes :
    LET stops == routes[route_id].stops
    IN  /\ {stops[i].sequence : i \in DOMAIN stops} = 1..Len(stops)
        /\ \A i, j \in DOMAIN stops : i # j => stops[i].sequence # stops[j].sequence

\* a route rebuilt by an update (it carries a comment, which only an update
\* attaches) with three stops
C2_Witness ==
  \E route_id \in DOMAIN routes :
    LET stops == routes[route_id].stops
    IN  /\ Len(stops) = 3
        /\ stops[3].comments # None
        /\ stops[1].comments = None

\* C3: a route is DRAFT when it is created, and a route that is CONFIRMED is
\* CONFIRMED after every step, whoever makes the request.
C3_ConfirmedIsTerminal ==
  [][/\ \A route_id \in DOMAIN routes :
          /\ route_id \in DOMAIN routes'
          /\ routes'[route_id].status \in RouteStatus
          /\ routes[route_id].status = CONFIRMED => routes'[route_id].status = CONFIRMED
     /\ \A route_id \in DOMAIN routes' \ DOMAIN routes : routes'[route_id].status = DRAFT]_vars

\* a CONFIRMED route that an administrator's save edits and leaves CONFIRMED
C3_Witness ==
  \E route_id \in DOMAIN routes :
    LET r == routes[route_id]
        res == update_route(1, route_id, [BaseForm EXCEPT !.name = "b", !.action = "save"])
    IN  /\ r.status = CONFIRMED
        /\ r.name = "a"
        /\ res.code = 302
        /\ res.routes[route_id].name = "b"
        /\ res.routes[route_id].status = CONFIRMED

\* The confirm requests of C4: on a DRAFT route with a stop, no assignee
\* change, no store ids
C4_Case(route_id, f) ==
  /\ routes[route_id].status = DRAFT
  /\ Len(routes[route_id].stops) >= 1
  /\ f.action = "confirm"
  /\ f.assigned_user_id \in {0, routes[route_id].assigned_user_id}
  /\ f.store_ids = <<>>

C4_Outcome(route_id, uid, f) ==
  LET res == update_route(uid, route_id, f)
  IN  IF IsAdmin(uid) \/ uid = routes[route_id].assigned_user_id
      THEN res.code = 302 /\ res.routes[route_id].status = CONFIRMED
      ELSE res.code = 403 /\ res.routes = routes

\* C4 as stated: every such confirm request by the assignee or an
\* administrator sets the status to CONFIRMED, and by anyone else is denied.
C4_AsStated ==
  \A route_id \in DOMAIN routes, uid \in UserIds, f \in UpdateForms :
    C4_Case(route_id, f) => C4_Outcome(route_id, uid, f)

\* C4 (amended): the same, for the requests whose planned date is absent or
\* parses; an unparseable planned date is answered 400 and the route stays
\* DRAFT.
C4_ConfirmByAssigneeOrAdmin ==
  \A route_id \in DOMAIN routes, uid \in UserIds, f \in UpdateForms :
    C4_Case(route_id, f) =>
      IF f.planned_date = None \/ _parse_date(f.planned_date).ok
      THEN C4_Outcome(route_id, uid, f)
      ELSE LET res == update_route(uid, route_id, f)
           IN  /\ res.routes = routes
               /\ res.code = IF IsAdmin(uid) \/ uid = routes[route_id].assigned_user_id
                             THEN 400 ELSE 403

\* a DRAFT route whose creator is neither its assignee nor an administrator:
\* the assignee's confirm sets CONFIRMED, the creator's is denied
C4_Witness ==
  \E route_id \in DOMAIN routes :
    LET r == routes[route_id]
        f == [BaseForm EXCEPT !.name = r.name, !.notes = r.notes, !.action = "confirm"]
    IN  /\ r.status = DRAFT
        /\ r.created_by_user_id # r.assigned_user_id
        /\ ~IsAdmin(r.created_by_user_id)
        /\ update_route(r.assigned_user_id, route_id, f).routes[route_id].status = CONFIRMED
        /\ update_route(1, route_id, f).routes[route_id].status = CONFIRMED
        /\ update_route(r.created_by_user_id, route_id, f).code = 403
        /\ update_route(r.created_by_user_id, route_id, f).routes = routes

\* C5: user_can_edit_route(user, route) is true exactly when the user is an
\* administrator, or the route is DRAFT and the user is its creator or its
\* assignee.
C5_CanEdit ==
  \A route_id \in DOMAIN routes, uid \in UserIds :
    LET r == routes[route_id]
    IN  user_can_edit_route(GetUser(uid), r)
          <=> \/ IsAdmin(uid)
              \/ r.status = DRAFT /\ (uid = r.created_by_user_id \/ uid = r.assigned_user_id)

\* a CONFIRMED route with a creator and an assignee who are not
\* administrators: neither may edit it, the administrator may
C5_Witness ==
  \E route_id \in DOMAIN routes :
    LET r == routes[route_id]
    IN  /\ r.status = CONFIRMED
        /\ r.created_by_user_id # r.assigned_user_id
        /\ ~IsAdmin(r.created_by_user_id)
        /\ ~user_can_edit_route(GetUser(r.created_by_user_id), r)
        /\ ~user_can_edit_route(GetUser(r.assigned_user_id), r)
        /\ user_can_edit_route(GetUser(1), r)

\* C6: user_can_view_route(user, route) is true exactly when the user is an
\* administrator or the route's creator or assignee, whatever the status, and
\* route_detail answers 403 to every user for whom it is false.
C6_CanView ==
  \A route_id \in DOMAIN routes, uid \in UserIds :
    LET r == routes[route_id]
        view == user_can_view_route(GetUser(uid), r)
    IN  /\ view <=> (IsAdmin(uid) \/ uid = r.created_by_user_id \/ uid = r.assigned_user_id)
        /\ ~view => route_detail(uid, route_id).code = 403

\* a CONFIRMED route of salesman 2 and sub-salesman 3: both see it, the
\* client is denied
C6_Witness ==
  \E route_id \in DOMAIN routes :
    LET r == routes[route_id]
    IN  /\ r.status = CONFIRMED
        /\ {r.created_by_user_id, r.assigned_user_id} = {2, 3}
        /\ route_detail(2, route_id).code = 200
        /\ route_detail(3, route_id).code = 200
        /\ route_detail(4, route_id).code = 403

\* C7: list_accessible_routes(user) lists every stored route for an
\* administrator and otherwise exactly the routes the user created or is
\* assigned: a route is listed iff user_can_view_route holds of it, once.
C7_ListIsViewable ==
  \A uid \in UserIds :
    LET listed == list_accessible_routes(GetUser(uid))
    IN  /\ Range(listed) = {route_id \in DOMAIN routes : user_can_view_route(GetUser(uid), routes[route_id])}
        /\ Cardinality(Range(listed)) = Len(listed)
        /\ IsAdmin(uid) => Range(listed) = DOMAIN routes
        /\ ~IsAdmin(uid) =>
             Range(listed) = {route_id \in DOMAIN routes :
                                \/ routes[route_id].created_by_user_id = uid
                                \/ routes[route_id].assigned_user_id = uid}

\* a route created by salesman 2 for sub-salesman 3 is listed for both and
\* for the administrator, and for neither of the others
C7_Witness ==
  /\ Len(routes) >= 1
  /\ routes[1].created_by_user_id = 2
  /\ routes[1].assigned_user_id = 3
  /\ list_accessible_routes(GetUser(1)) = <<1>>
  /\ list_accessible_routes(GetUser(2)) = <<1>>
  /\ list_accessible_routes(GetUser(3)) = <<1>>
  /\ list_accessible_routes(GetUser(4)) = <<>>

\* The state part of C8: every route was created by an ADMIN, SALESMAN or
\* SUBSALESMAN and is assigned to an existing SALESMAN or SUBSALESMAN.
C8_AssigneeValid ==
  \A route_id \in DOMAIN routes :
    /\ GetUser(routes[route_id].created_by_user_id).role \in {ADMIN, SALESMAN, SUBSALESMAN}
    /\ GetUser(routes[route_id].assigned_user_id).role \in {SALESMAN, SUBSALESMAN}

BadAssignee(id) == id # 0 /\ GetUser(id).role \notin {SALESMAN, SUBSALESMAN}

\* update requests that return before the form is read: a confirm of a
\* route that is CONFIRMED already, and an action that is none of save,
\* reoptimize, confirm
IgnoresForm(route_id, f) ==
  \/ f.action \notin EditActions
  \/ f.action = "confirm" /\ route_id \in DOMAIN routes /\ routes[route_id].status = CONFIRMED

C8_CreateRejects ==
  \A uid \in UserIds, f \in CreateForms :
    LET res == create_route(uid, f)
    IN  /\ (f.assigned_user_id = 0 \/ BadAssignee(f.assigned_user_id))
           => res.code \in ErrorCodes /\ res.routes = routes
        /\ User[uid] = CLIENT => res.code = 403 /\ res.routes = routes

\* C8 as stated: creators and assignees are valid in every state, and every
\* create or update request that names an assignee who does not exist or has
\* another role is rejected with the routes unchanged.
C8_AsStated ==
  /\ C8_AssigneeValid
  /\ C8_CreateRejects
  /\ \A uid \in UserIds, route_id \in RouteIdIn, f \in UpdateForms :
       BadAssignee(f.assigned_user_id) =>
         LET res == update_route(uid, route_id, f)
         IN  res.code \in ErrorCodes /\ res.routes = routes

\* C8 (amended): as stated, except that an update request which names such
\* an assignee is not rejected but answered with the redirect, the routes
\* unchanged, when it is a confirm of a route that is CONFIRMED already or its
\* action is none of save, reoptimize, confirm (and the requester passes the
\* permission check).
C8_AssigneeAlwaysValid ==
  /\ C8_AssigneeValid
  /\ C8_CreateRejects
  /\ \A uid \in UserIds, route_id \in RouteIdIn, f \in UpdateForms :
       BadAssignee(f.assigned_user_id) =>
         LET res == update_route(uid, route_id, f)
         IN  /\ res.routes = routes
             /\ res.code \in ErrorCodes \/ (res.code = 302 /\ IgnoresForm(route_id, f))
             /\ ~IgnoresForm(route_id, f) => res.code \in ErrorCodes

\* a DRAFT route exists, the administrator's attempts to assign it to the
\* client, to the administrator and to a user that does not exist are all
\* answered 400, and so is the same at creation
C8_Witness ==
  \E route_id \in DOMAIN routes :
    /\ routes[route_id].status = DRAFT
    /\ \A u \in {1, 4, 9} :
         /\ update_route(1, route_id, [BaseForm EXCEPT !.assigned_user_id = u]).code = 400
         /\ create_route(1, [BaseForm EXCEPT !.assigned_user_id = u, !.store_ids = <<1>>]).code = 400
    /\ create_route(4, [BaseForm EXCEPT !.assigned_user_id = 2, !.store_ids = <<1>>]).code = 403

IsSub(uid) == User[uid] = SUBSALESMAN

\* after any request of a SUBSALESMAN each route's assignee is the one it
\* had or the requester, and a route the request creates is the requester's
C9_SubNeverAssignsOther ==
  /\ \A uid \in UserIds, route_id \in DOMAIN routes, f \in UpdateForms :
       IsSub(uid) =>
         LET res == update_route(uid, route_id, f)
         IN  /\ DOMAIN res.routes = DOMAIN routes
             /\ \A k \in DOMAIN routes :
                  res.routes[k].assigned_user_id \in {routes[k].assigned_user_id, uid}
  /\ \A uid \in UserIds, f \in CreateForms :
       IsSub(uid) =>
         LET res == create_route(uid, f)
         IN  /\ \A k \in DOMAIN routes : res.routes[k] = routes[k]
             /\ \A k \in DOMAIN res.routes \ DOMAIN routes : res.routes[k].assigned_user_id = uid
             /\ (f.assigned_user_id # uid) => res.code \in ErrorCodes /\ res.routes = routes

NamesOther(uid, f) == f.assigned_user_id # 0 /\ f.assigned_user_id # uid

\* C9 as stated: no request of a SUBSALESMAN sets an assignee other than the
\* requester, and every create or update request of a SUBSALESMAN that names
\* another assignee is denied with the routes unchanged.
C9_AsStated ==
  /\ C9_SubNeverAssignsOther
  /\ \A uid \in UserIds, route_id \in RouteIdIn, f \in UpdateForms :
       (IsSub(uid) /\ NamesOther(uid, f)) =>
         LET res == update_route(uid, route_id, f)
         IN  res.code \in ErrorCodes /\ res.routes = routes

\* C9 (amended): as stated, except that an update request of a SUBSALESMAN
\* which names another assignee is not denied but answered with the
\* redirect, the routes unchanged, when it is a confirm of a route that is
\* CONFIRMED already or its action is none of save, reoptimize, confirm.
C9_SubAssignsOnlySelf ==
  /\ C9_SubNeverAssignsOther
  /\ \A uid \in UserIds, route_id \in RouteIdIn, f \in UpdateForms :
       (IsSub(uid) /\ NamesOther(uid, f)) =>
         LET res == update_route(uid, route_id, f)
         IN  /\ res.routes = routes
             /\ res.code \in ErrorCodes \/ (res.code = 302 /\ IgnoresForm(route_id, f))
             /\ ~IgnoresForm(route_id, f) => res.code \in ErrorCodes

\* a DRAFT route that sub-salesman 3 created: 3 is denied (403) when naming
\* salesman 2 as the assignee, in an update and at creation
C9_Witness ==
  \E route_id \in DOMAIN routes :
    LET r == routes[route_id]
    IN  /\ r.status = DRAFT
        /\ r.created_by_user_id = 3
        /\ r.assigned_user_id = 3
        /\ update_route(3, route_id, [BaseForm EXCEPT !.assigned_user_id = 2]).code = 403
        /\ update_route(3, route_id, [BaseForm EXCEPT !.assigned_user_id = 3]).code = 302
        /\ create_route(3, [BaseForm EXCEPT !.assigned_user_id = 2, !.store_ids = <<1>>]).code = 403

\* C10: a route's stored total_distance_km is the sum of the stored
\* travel_distance_km of its stops, and its stored total_travel_minutes the
\* sum of their travel_minutes.
C10_TotalsAreSums ==
  \A route_id \in DOMAIN routes :
    LET r == routes[route_id]
    IN  /\ r.total_distance_km = SumSeq([i \in DOMAIN r.stops |-> r.stops[i].travel_distance_km])
        /\ r.total_travel_minutes = SumSeq([i \in DOMAIN r.stops |-> r.stops[i].travel_minutes])

\* ------------------------------------------- claims on services/routes.py
Optimized == call.op = "optimize_store_sequence"
Rebuilt == call.op = "rebuild_route_stops"
Measured == call.op = "calculate_route_metrics"

\* how many times x occurs in s
Count(s, x) == Cardinality({i \in DOMAIN s : s[i] = x})

LacksCoords(store) == ~HasCoords(store)

\* the distance between two stores that have both coordinates
Distance(a, b) ==
  _haversine_distance_km(a.latitude[1], a.longitude[1], b.latitude[1], b.longitude[1])

\* s without one occurrence of each element of placed
RECURSIVE RemoveEach(_, _)
RemoveEach(s, placed) ==
  IF placed = <<>> THEN s ELSE RemoveEach(RemoveFirst(s, Head(placed)), Tail(placed))

\* C11: optimize_store_sequence(S) is a permutation of S, for every list S
\* of stores with and without coordinates of any length from 0: it has the
\* length of S and holds every store as many times as S does.
C11_Permutation ==
  Optimized =>
    /\ Len(call.result) = Len(call.stores)
    /\ \A i \in DOMAIN SeqStore :
         Count(call.result, SeqStore[i]) = Count(call.stores, SeqStore[i])

\* a list that starts with a store without coordinates and holds a located
\* store twice: the output is another order of it, that store twice in it
C11_Witness ==
  /\ Optimized
  /\ call.stores = <<SeqStore[5], SeqStore[1], SeqStore[1]>>
  /\ call.result = <<SeqStore[1], SeqStore[1], SeqStore[5]>>

\* C12: in the output of optimize_store_sequence, among the stores that have
\* both coordinates, each store after the first is the one nearest to the
\* store placed right before it among the located stores not placed yet, the
\* earliest of them in the input when several are nearest; for all
\* coordinates, a latitude or longitude of 0 included.
C12_NearestNeighbour ==
  Optimized =>
    LET located == SelectSeq(call.stores, HasCoords)
        out == call.result
    IN  \A i \in 2..Len(located) :
          LET rem == RemoveEach(located, SubSeq(out, 1, i - 1))
              d(c) == Distance(out[i - 1], c)
          IN  \E j \in DOMAIN rem :
                /\ rem[j] = out[i]
                /\ \A m \in DOMAIN rem : d(rem[j]) <= d(rem[m])
                /\ \A m \in 1..(j - 1) : d(rem[m]) > d(rem[j])

\* C13: optimize_store_sequence places every store that lacks a latitude or
\* a longitude after all the stores that have both, in the order they have
\* in the input; when no store has both, the output is the input.
C13_UnlocatedLast ==
  Optimized =>
    LET out == call.result
        k == Len(SelectSeq(call.stores, HasCoords))
    IN  /\ \A i \in 1..k : i \in DOMAIN out /\ HasCoords(out[i])
        /\ SubSeq(out, k + 1, Len(out)) = SelectSeq(call.stores, LacksCoords)
        /\ k = 0 => out = call.stores

\* a store with a latitude only and a store with no coordinates, a located
\* store between them: the located one comes first, the two others follow in
\* their order
C13_Witness ==
  /\ Optimized
  /\ call.stores = <<SeqStore[6], SeqStore[2], SeqStore[5]>>
  /\ call.result = <<SeqStore[2], SeqStore[6], SeqStore[5]>>

\* C14: the first element of optimize_store_sequence(S) is the first store
\* of S that has both coordinates when there is one, and so the first
\* element of S when every store of a non-empty S has both.
C14_StartsAtFirstLocated ==
  Optimized =>
    LET located == SelectSeq(call.stores, HasCoords)
    IN  /\ located # <<>> => call.result[1] = located[1]
        /\ (call.stores # <<>> /\ \A i \in DOMAIN call.stores : HasCoords(call.stores[i]))
             => call.result[1] = call.stores[1]

\* the first located store is the second of the list, and it is not the one
\* nearest to any other: the output starts with it
C14_Witness ==
  /\ Optimized
  /\ call.stores = <<SeqStore[5], SeqStore[3], SeqStore[2]>>
  /\ call.result[1] = SeqStore[3]

\* C15: after rebuild_route_stops with a comment map, each stop whose store
\* id is a key of the map has that entry as its comment, each other stop has
\* no comment, and the stops are those of the stores given: an entry for a
\* store that is not among them makes no stop and no comment.
C15_CommentsFromMap ==
  Rebuilt =>
    LET stops == call.result.stops
    IN  /\ Len(stops) = Len(call.stores)
        /\ {stops[i].store_id : i \in DOMAIN stops} = {call.stores[i].id : i \in DOMAIN call.stores}
        /\ \A i \in DOMAIN stops :
             stops[i].comments = IF stops[i].store_id \in DOMAIN call.comments
                                 THEN call.comments[stops[i].store_id]
                                 ELSE None

\* a route whose stops for stores 1, 3 and 5 carry comments is rebuilt for
\* stores 2 and 1 with entries for store 1 and for 9, which is no store:
\* store 1's stop has the entry, store 2's stop has no comment
C15_Witness ==
  /\ Rebuilt
  /\ call.route = UsedRoute
  /\ call.stores = <<SeqStore[2], SeqStore[1]>>
  /\ call.comments = [k \in {1, 9} |-> IF k = 1 THEN "x" ELSE "y"]
  /\ call.result.stops[1].store_id = 2 /\ call.result.stops[1].comments = None
  /\ call.result.stops[2].store_id = 1 /\ call.result.stops[2].comments = "x"

\* C19: after a rebuild the stop with sequence 1 has travel_distance_km 0
\* and travel_minutes 0, and so has each stop for which it or the stop before
\* it lacks a latitude or a longitude; each other stop carries the distance
\* of the leg from the stop before it (to two decimals) and its travel time
\* (to one decimal).
C19_LegFigures ==
  Rebuilt =>
    LET stops == call.result.stops
    IN  \A i \in DOMAIN stops :
          LET s == SeqStore[stops[i].store_id]
              p == SeqStore[stops[i - 1].store_id]
          IN  /\ stops[i].sequence = i
              /\ IF i = 1 \/ LacksCoords(s) \/ LacksCoords(p)
                 THEN stops[i].travel_distance_km = 0 /\ stops[i].travel_minutes = 0
                 ELSE /\ stops[i].travel_distance_km = Round(Distance(p, s), 10)
                      /\ stops[i].travel_minutes = Round(_travel_minutes(Distance(p, s)), 100)

\* the route rebuilt for stores 2, 5, 3: stop 1 (store 2) has no leg, stop 2
\* (store 3) carries the 244.58 km and 266.8 minutes from store 2, stop 3
\* (store 5, without coordinates) has none
C19_Witness ==
  /\ Rebuilt
  /\ call.stores = <<SeqStore[2], SeqStore[5], SeqStore[3]>>
  /\ call.result.stops[1].travel_distance_km = 0
  /\ call.result.stops[2].store_id = 3
  /\ call.result.stops[2].travel_distance_km = 244580
  /\ call.result.stops[2].travel_minutes = 266800
  /\ call.result.stops[3].store_id = 5
  /\ call.result.stops[3].travel_distance_km = 0
  /\ call.result.stops[3].travel_minutes = 0

\* the contribution of the pair stores[i], stores[i + 1] to the distance
PairDistance(stores, i) ==
  IF HasCoords(stores[i]) /\ HasCoords(stores[i + 1])
  THEN Distance(stores[i], stores[i + 1])
  ELSE 0

\* C20: calculate_route_metrics returns 0 and 0 for the empty list and for
\* each list of one store; a consecutive pair in which a store lacks a
\* latitude or a longitude adds nothing to either total (the totals are the
\* sums over the other pairs) and no error is raised; so a list with at most
\* one located store has both totals 0.
C20_MetricsOfMissing ==
  Measured =>
    LET stores == call.stores
        m == call.result
        zero == [total_distance_km |-> 0, total_travel_minutes |-> 0]
    IN  /\ Len(stores) <= 1 => m = zero
        /\ m.total_distance_km =
             SumSeq([i \in 1..(Len(stores) - 1) |-> PairDistance(stores, i)])
        /\ m.total_travel_minutes =
             SumSeq([i \in 1..(Len(stores) - 1) |-> _travel_minutes(PairDistance(stores, i))])
        /\ Cardinality({i \in DOMAIN stores : HasCoords(stores[i])}) <= 1 => m = zero

\* two located stores with a store without coordinates between them: both
\* pairs lack a coordinate and the totals are 0
C20_Witness ==
  /\ Measured
  /\ call.stores = <<SeqStore[2], SeqStore[5], SeqStore[3]>>
  /\ call.result = [total_distance_km |-> 0, total_travel_minutes |-> 0]

\* --------------------------------------- claims on the update of stops
\* C16: for every update request that rebuilds the stop list (store ids
\* given, action save, reoptimize or confirm), each store that is on the
\* route before and after the request keeps the comment it had, unless the
\* request supplies a comment for that store.
C16_CommentsSurviveRebuild ==
  \A route_id \in DOMAIN routes, uid \in UserIds, f \in UpdateForms :
    (f.store_ids # <<>> /\ f.action \in EditActions) =>
      LET before == routes[route_id].stops
          after == update_route(uid, route_id, f).routes[route_id].stops
          supplied == DOMAIN CommentLookup(f.comment_store_ids, f.comments)
      IN  \A i \in DOMAIN before, j \in DOMAIN after :
            (before[i].store_id = after[j].store_id /\ before[i].store_id \notin supplied)
              => after[j].comments = before[i].comments

\* C17: a create or update request that fails a validation or authorization
\* check (answered 400, 403 or 404) leaves the stored routes exactly as they
\* were: nothing the handler assigned before the check is stored.
C17_FailureStoresNothing ==
  /\ \A uid \in UserIds, route_id \in RouteIdIn, f \in UpdateForms :
       LET res == update_route(uid, route_id, f)
       IN  res.code \in ErrorCodes => res.routes = routes
  /\ \A uid \in UserIds, f \in CreateForms :
       LET res == create_route(uid, f)
       IN  res.code \in ErrorCodes => res.routes = routes

\* The update request of uid with form f fails with the code after the
\* handler has assigned another name to the session's route, and the stored
\* routes are as before
FailsDirty(uid, route_id, f, code) ==
  LET g == [f EXCEPT !.name = "a"]
      res == update_route(uid, route_id, g)
  IN  /\ UpdateBody(GetUser(uid), routes[route_id], g).route.name # routes[route_id].name
      /\ res.code = code
      /\ res.routes = routes

\* a DRAFT route named "b" of sub-salesman 3: an unparseable date, an
\* assignee of a wrong role or who does not exist, the sub-salesman naming
\* another assignee, an unknown, a repeated and an inaccessible store all
\* fail after the name was assigned, and a creation without stores fails
C17_Witness ==
  \E route_id \in DOMAIN routes :
    LET r == routes[route_id]
    IN  /\ r.status = DRAFT
        /\ r.name = "b"
        /\ r.assigned_user_id = 3
        /\ FailsDirty(1, route_id, [BaseForm EXCEPT !.planned_date = "05/01/2024"], 400)
        /\ FailsDirty(1, route_id, [BaseForm EXCEPT !.assigned_user_id = 4], 400)
        /\ FailsDirty(1, route_id, [BaseForm EXCEPT !.assigned_user_id = 9], 400)
        /\ FailsDirty(3, route_id, [BaseForm EXCEPT !.assigned_user_id = 2], 403)
        /\ FailsDirty(1, route_id, [BaseForm EXCEPT !.store_ids = <<1, 9>>], 403)
        /\ FailsDirty(1, route_id, [BaseForm EXCEPT !.store_ids = <<1, 1>>], 400)
        /\ FailsDirty(3, route_id, [BaseForm EXCEPT !.store_ids = <<3>>], 403)
        /\ create_route(1, [BaseForm EXCEPT !.assigned_user_id = 2]).code = 400
        /\ create_route(1, [BaseForm EXCEPT !.assigned_user_id = 2]).routes = routes

\* The update requests of C18: no store ids, and comments
C18_Case(f) == f.store_ids = <<>> /\ f.comments # <<>>

\* What C18 says of the route after the request: each stop whose store the
\* request names has the request's comment, and nothing else of the stops
\* (their number, sequence, store, leg figures, the other comments) nor the
\* totals has changed
C18_Effect(route_id, f, after) ==
  LET before == routes[route_id]
      lookup == CommentLookup(f.comment_store_ids, f.comments)
  IN  /\ after.stops =
           [i \in DOMAIN before.stops |->
              [before.stops[i] EXCEPT !.comments =
                 IF before.stops[i].store_id \in DOMAIN lookup
                 THEN lookup[before.stops[i].store_id] ELSE @]]
      /\ after.total_distance_km = before.total_distance_km
      /\ after.total_travel_minutes = before.total_travel_minutes

\* C18 as stated: every update request with no store ids and with comments
\* that is answered with the redirect has overwritten the comments of the
\* stops it names and left the rest of the stops and the totals as they were.
C18_AsStated ==
  \A route_id \in DOMAIN routes, uid \in UserIds, f \in UpdateForms :
    LET res == update_route(uid, route_id, f)
    IN  (C18_Case(f) /\ res.code = 302) => C18_Effect(route_id, f, res.routes[route_id])

\* C18 (amended): the same for the requests whose action is save, reoptimize
\* or confirm, a confirm of a route that is CONFIRMED already excepted; that
\* confirm and a request with any other action are answered with the
\* redirect and change nothing, and so does a request that is denied.
C18_CommentOnlyUpdate ==
  \A route_id \in DOMAIN routes, uid \in UserIds, f \in UpdateForms :
    LET res == update_route(uid, route_id, f)
    IN  C18_Case(f) =>
          IF res.code = 302 /\ ~IgnoresForm(route_id, f)
          THEN C18_Effect(route_id, f, res.routes[route_id])
          ELSE res.routes = routes

\* a route with stops for stores 1 and 2, a comment on the second only: a
\* request naming store 1 puts the comment on the first stop and leaves the
\* second, and a request naming store 3, which is not on the route, changes
\* no stop
C18_Witness ==
  \E route_id \in DOMAIN routes :
    LET r == routes[route_id]
        res1 == update_route(1, route_id, [BaseForm EXCEPT !.comment_store_ids = <<1>>, !.comments = <<"c">>])
        res3 == update_route(1, route_id, [BaseForm EXCEPT !.comment_store_ids = <<3>>, !.comments = <<"c">>])
    IN  /\ Len(r.stops) = 2
        /\ r.stops[1].store_id = 1 /\ r.stops[1].comments = None
        /\ r.stops[2].store_id = 2 /\ r.stops[2].comments = "c"
        /\ res1.code = 302
        /\ res1.routes[route_id].stops[1] = [r.stops[1] EXCEPT !.comments = "c"]
        /\ res1.routes[route_id].stops[2] = r.stops[2]
        /\ res3.code = 302
        /\ res3.routes[route_id].stops = r.stops

\* ------------------------------- claims on requests that interleave
\* session s has committed a rebuild of the stops that was not a confirm
CommittedRebuild(s) ==
  /\ sessions[s].pc = "done"
  /\ sessions[s].code = 302
  /\ sessions[s].form.store_ids # <<>>
  /\ sessions[s].form.action \in {"save", "reoptimize"}

\* the route after the request of session a and then that of session b,
\* each run from its read to its commit on the route the other left
Serial(a, b) ==
  UpdateBody(GetUser(sessions[b].uid),
             UpdateBody(GetUser(sessions[a].uid), ConcRoute, sessions[a].form).route,
             sessions[b].form).route

\* C22: when two update requests that rebuild the stops of one route run
\* concurrently, the route finally stored (stops, sequence numbers,
\* comments, totals) is the one that running the two requests one after the
\* other, in one order or the other, stores.
C22_RebuildsSerializable ==
  \A a, b \in Sess :
    (/\ a # b
     /\ CommittedRebuild(a)
     /\ CommittedRebuild(b)
     /\ \A t \in Sess \ {a, b} : sessions[t].pc = "idle")
    => routes[ConcRouteId] \in {Serial(a, b), Serial(b, a)}

\* C28: when update requests on one route interleave, no request of a user
\* who is not an administrator commits a change of the name, notes, planned
\* date, assignee or stop list of a route that is CONFIRMED when the commit
\* is made.
C28_NoEditLandsOnConfirmed ==
  \A s \in Sess :
    (/\ sessions[s].pc = "done"
     /\ sessions[s].code = 302
     /\ sessions[s].landed.on = CONFIRMED
     /\ sessions[s].landed.changed)
    => IsAdmin(sessions[s].uid)

\* ------------------------------------- claims on the stored stop list
\* C21: every stored route has at least one stop; a create request with no
\* store ids is rejected and stores nothing; an update request with no store
\* ids leaves the route the stops it had, for the same stores in the same
\* order; and the body of a save, reoptimize or confirm request that finds
\* the route without stops and brings no store ids ends in an error.
C21_RouteHasStops ==
  /\ \A route_id \in DOMAIN routes : Len(routes[route_id].stops) >= 1
  /\ \A uid \in UserIds, f \in CreateForms :
       f.store_ids = <<>> =>
         LET res == create_route(uid, f)
         IN  res.code \in ErrorCodes /\ res.routes = routes
  /\ \A route_id \in DOMAIN routes, uid \in UserIds, f \in UpdateForms :
       f.store_ids = <<>> =>
         LET before == routes[route_id].stops
             after == update_route(uid, route_id, f).routes[route_id].stops
         IN  /\ Len(after) = Len(before)
             /\ \A i \in DOMAIN before :
                  [after[i] EXCEPT !.comments = None] = [before[i] EXCEPT !.comments = None]
             /\ (f.action \in EditActions /\ Authorize(uid, route_id, f.action) = 0) =>
                  UpdateBody(GetUser(uid), [routes[route_id] EXCEPT !.stops = <<>>], f).code \in ErrorCodes

\* a route of two stops: a create request without store ids is answered 400,
\* and a save without store ids renames the route and keeps its two stops
C21_Witness ==
  \E route_id \in DOMAIN routes :
    LET r == routes[route_id]
        res == update_route(1, route_id, [BaseForm EXCEPT !.name = "b"])
    IN  /\ Len(r.stops) = 2
        /\ r.name = "a"
        /\ create_route(2, [BaseForm EXCEPT !.assigned_user_id = 2]).code = 400
        /\ res.code = 302
        /\ res.routes[route_id].name = "b"
        /\ res.routes[route_id].stops = r.stops

\* ------------------------------------- claims on the rebuild of stops
\* C23: every figure a rebuild stores is the full-precision value rounded
\* to one decimal place: the route's total distance and total travel time,
\* and each stop's leg distance and leg travel time.
C23_OneDecimal ==
  Rebuilt =>
    LET stops == call.result.stops
        ordered == [i \in DOMAIN stops |-> SeqStore[stops[i].store_id]]
        metrics == calculate_route_metrics(ordered)
    IN  /\ call.result.total_distance_km = Round(metrics.total_distance_km, 100)
        /\ call.result.total_travel_minutes = Round(metrics.total_travel_minutes, 100)
        /\ \A i \in DOMAIN stops :
             LET leg == IF i = 1 THEN <<0, 0>> ELSE Leg(ordered[i - 1], ordered[i])
             IN  /\ stops[i].travel_distance_km = Round(leg[1], 100)
                 /\ stops[i].travel_minutes = Round(leg[2], 100)

\* ------------------------------------- claims on the confirm request
\* C24: a confirm request on a CONFIRMED route is answered 302 and leaves
\* every stored route as it was, whoever sends it and whatever its form
\* carries.
C24_ReconfirmIsNoOp ==
  \A route_id \in DOMAIN routes, uid \in UserIds, f \in UpdateFormsBy["confirm"] :
    routes[route_id].status = CONFIRMED =>
      LET res == update_route(uid, route_id, f)
      IN  res.code = 302 /\ res.routes = routes

\* a CONFIRMED route named "a", last updated before now: the confirm requests
\* of the administrator, of the assignee and of a client, with a new name or
\* with store ids, are answered 302 and change nothing
C24_Witness ==
  \E route_id \in DOMAIN routes :
    LET r == routes[route_id]
        rename == [BaseForm EXCEPT !.name = "b", !.notes = "n", !.action = "confirm"]
        rebuild == [BaseForm EXCEPT !.store_ids = <<1>>, !.action = "confirm"]
    IN  /\ r.status = CONFIRMED
        /\ r.name = "a"
        /\ r.updated_at < now
        /\ Len(r.stops) > 1
        /\ r.assigned_user_id # 1
        /\ \A uid \in {1, r.assigned_user_id, 4} :
             /\ update_route(uid, route_id, rename) = [code |-> 302, routes |-> routes]
             /\ update_route(uid, route_id, rebuild) = [code |-> 302, routes |-> routes]

\* The confirm requests of C25: answered 302 on a DRAFT route
C25_Case(route_id, uid, f) ==
  /\ routes[route_id].status = DRAFT
  /\ f.action = "confirm"
  /\ update_route(uid, route_id, f).code = 302

\* a form that repeats the stored name and notes and carries nothing else
C25_Repeats(route_id, f) ==
  /\ f.name = routes[route_id].name
  /\ f.notes = routes[route_id].notes
  /\ f.planned_date = None
  /\ f.assigned_user_id = 0
  /\ f.store_ids = <<>>
  /\ f.comments = <<>>

\* C25 as stated: a successful confirm request on a DRAFT route changes the
\* route's status and updated_at and nothing else.
C25_AsStated ==
  \A route_id \in DOMAIN routes, uid \in UserIds, f \in UpdateFormsBy["confirm"] :
    C25_Case(route_id, uid, f) =>
      update_route(uid, route_id, f).routes =
        [routes EXCEPT ![route_id].status = CONFIRMED, ![route_id].updated_at = now]

\* C25 (amended): a successful confirm request on a DRAFT route stores what
\* the same form sent with action save stores, with the status CONFIRMED; it
\* changes the status and updated_at and nothing else when its form repeats
\* the stored name and notes and carries no planned date, assignee, store
\* ids or comments.
C25_ConfirmSavesTheForm ==
  \A route_id \in DOMAIN routes, uid \in UserIds, f \in UpdateFormsBy["confirm"] :
    C25_Case(route_id, uid, f) =>
      LET res == update_route(uid, route_id, f)
          saved == update_route(uid, route_id, [f EXCEPT !.action = "save"])
      IN  /\ saved.code = 302
          /\ res.routes = [saved.routes EXCEPT ![route_id].status = CONFIRMED]
          /\ res.routes[route_id].name = f.name
          /\ res.routes[route_id].notes = f.notes
          /\ C25_Repeats(route_id, f) =>
               res.routes = [routes EXCEPT ![route_id].status = CONFIRMED,
                                           ![route_id].updated_at = now]

\* a DRAFT route named "a" with notes, last updated before now: the
\* assignee's confirm with the name "b" and no notes stores the new name,
\* erases the notes and sets CONFIRMED; the confirm that repeats name and
\* notes changes the status and updated_at alone
C25_Witness ==
  \E route_id \in DOMAIN routes :
    LET r == routes[route_id]
        edits == update_route(r.assigned_user_id, route_id, [BaseForm EXCEPT !.name = "b", !.action = "confirm"])
        plain == update_route(r.assigned_user_id, route_id,
                              [BaseForm EXCEPT !.name = r.name, !.notes = r.notes, !.action = "confirm"])
    IN  /\ r.status = DRAFT
        /\ r.name = "a"
        /\ r.notes = "n"
        /\ r.updated_at < now
        /\ edits.code = 302
        /\ edits.routes[route_id].status = CONFIRMED
        /\ edits.routes[route_id].name = "b"
        /\ edits.routes[route_id].notes = None
        /\ edits.routes[route_id].stops = r.stops
        /\ plain.code = 302
        /\ plain.routes[route_id] = [r EXCEPT !.status = CONFIRMED, !.updated_at = now]

\* ------------------------------------- claims on the replaced stop list
\* The stops are one per store of store_ids, in some order, each with the
\* comment that lookup holds for its store (None without one) and the leg
\* from the stop before it in this list.
C26_StopsAreOf(stops, store_ids, lookup) ==
  /\ {stops[i].store_id : i \in DOMAIN stops} = Range(store_ids)
  /\ Len(stops) = Cardinality(Range(store_ids))
  /\ \A i \in DOMAIN stops :
       LET leg == IF i = 1 THEN <<0, 0>>
                  ELSE Leg(Store[stops[i - 1].store_id], Store[stops[i].store_id])
       IN  /\ stops[i].comments = DictGet(lookup, stops[i].store_id)
           /\ stops[i].travel_distance_km = Round(leg[1], 10)
           /\ stops[i].travel_minutes = Round(leg[2], 100)

\* C26: after a create request, or an update request with store ids and
\* action save, reoptimize or confirm, that is answered 302 and was not
\* answered before its form was read, the route's stops are one per store of
\* the request: no stop, comment or leg figure of the list before remains,
\* and the list is the one the request stores on a route without stops.
C26_RebuildReplacesStops ==
  /\ \A uid \in UserIds, f \in CreateForms :
       LET res == create_route(uid, f)
       IN  res.code = 302 =>
             C26_StopsAreOf(res.routes[Len(res.routes)].stops, f.store_ids, <<>>)
  /\ \A route_id \in DOMAIN routes, uid \in UserIds, f \in UpdateForms :
       LET res == update_route(uid, route_id, f)
           bare == [routes[route_id] EXCEPT !.stops = <<>>]
       IN  (f.store_ids # <<>> /\ res.code = 302 /\ ~IgnoresForm(route_id, f)) =>
             /\ C26_StopsAreOf(res.routes[route_id].stops, f.store_ids,
                               CommentLookup(f.comment_store_ids, f.comments))
             /\ res.routes[route_id].stops = UpdateBody(GetUser(uid), bare, f).route.stops

\* a route of three stops, the third with a comment: the administrator's
\* save with store ids 1 and 2 leaves two stops, for the stores 1 and 2,
\* without a comment
C26_Witness ==
  \E route_id \in DOMAIN routes :
    LET r == routes[route_id]
        res == update_route(1, route_id, [BaseForm EXCEPT !.store_ids = <<1, 2>>])
        after == res.routes[route_id].stops
    IN  /\ Len(r.stops) = 3
        /\ r.stops[3].comments # None
        /\ res.code = 302
        /\ Len(after) = 2
        /\ {after[i].store_id : i \in DOMAIN after} = {1, 2}
        /\ \A i \in DOMAIN after : after[i].comments = None

\* ------------------------------------- claims on who changes a route
\* C27: a request that leaves a stored route different from what it was is
\* answered 302 and is made by a user for whom user_can_edit_route held
\* before it; a confirm request that passes the checks of the confirm path
\* is made by such a user; and a create request changes no stored route.
C27_OnlyEditorsChange ==
  /\ \A route_id \in DOMAIN routes, uid \in UserIds, f \in UpdateForms :
       LET res == update_route(uid, route_id, f)
       IN  /\ res.routes # routes =>
                /\ res.code = 302
                /\ user_can_edit_route(GetUser(uid), routes[route_id])
           /\ (f.action = "confirm" /\ Authorize(uid, route_id, f.action) = 0) =>
                user_can_edit_route(GetUser(uid), routes[route_id])
  /\ \A uid \in UserIds, f \in CreateForms, route_id \in DOMAIN routes :
       create_route(uid, f).routes[route_id] = routes[route_id]

\* a DRAFT route whose creator is not its assignee: the assignee's confirm
\* changes it, the confirm and the save of a client, who may not edit it, are
\* denied and change nothing
C27_Witness ==
  \E route_id \in DOMAIN routes :
    LET r == routes[route_id]
        confirm == [BaseForm EXCEPT !.name = "b", !.action = "confirm"]
        save == [BaseForm EXCEPT !.name = "b", !.store_ids = <<1>>]
    IN  /\ r.status = DRAFT
        /\ r.name = "a"
        /\ r.created_by_user_id # r.assigned_user_id
        /\ user_can_edit_route(GetUser(r.assigned_user_id), r)
        /\ update_route(r.assigned_user_id, route_id, confirm).routes[route_id].status = CONFIRMED
        /\ ~user_can_edit_route(GetUser(4), r)
        /\ update_route(4, route_id, confirm) = [code |-> 403, routes |-> routes]
        /\ update_route(4, route_id, save) = [code |-> 403, routes |-> routes]

\* ------------------------------------- claims on repeated store ids
\* store_ids names a store id twice
C29_Repeats(f) ==
  \E i, j \in DOMAIN f.store_ids : i # j /\ f.store_ids[i] = f.store_ids[j]

\* no stored route holds two stops for the same store
C29_OneStopPerStore ==
  \A route_id \in DOMAIN routes :
    LET stops == routes[route_id].stops
    IN  \A i, j \in DOMAIN stops : i # j => stops[i].store_id # stops[j].store_id

\* a create request that repeats a store id is answered with an error and
\* stores nothing
C29_CreateRejects ==
  \A uid \in UserIds, f \in CreateForms :
    C29_Repeats(f) =>
      LET res == create_route(uid, f)
      IN  res.code \in ErrorCodes /\ res.routes = routes

C30_Idempotent ==
  (Optimized /\ \A i, j \in DOMAIN call.stores : i # j => call.stores[i] # call.stores[j])
    => optimize_store_sequence(call.result) = call.result

\* the call with stores 1, 3, 2, of which 3 and 2 are at the same distance
\* from 1: the result is 1, 3, 2, and so is the result for 1, 3, 2; the
\* list 2, 3, 1 is reordered to 2, 1, 3, which is returned as it is
C30_Witness ==
  /\ Optimized
  /\ call.stores = <<SeqStore[1], SeqStore[3], SeqStore[2]>>
  /\ Distance(SeqStore[1], SeqStore[3]) = Distance(SeqStore[1], SeqStore[2])
  /\ call.result = <<SeqStore[1], SeqStore[3], SeqStore[2]>>
  /\ optimize_store_sequence(call.result) = call.result
  /\ LET other == optimize_store_sequence(<<SeqStore[2], SeqStore[3], SeqStore[1]>>)
     IN  /\ other = <<SeqStore[2], SeqStore[1], SeqStore[3]>>
         /\ optimize_store_sequence(other) = other
====
